---- MODULE Spec2Model ----
(***************************************************************************)
(* A model of the Crowdfund campaign escrow (one-person-one-vote revision) *)
(* Every external function of the contract is one action.  A call whose    *)
(* require fails reverts and leaves the storage and all balances as they   *)
(* were, so a rejected call is a stuttering step: the guard of an action   *)
(* is the conjunction of the function's modifiers and require statements   *)
(* (including the implicit ones of a transfer and of integer division).    *)
(* Amounts are in wei, times in seconds.                                   *)
(***************************************************************************)
EXTENDS Integers, Sequences, FiniteSets, TLC

\* ---------------------------------------------------------------- bounds
MaxCap == 3
MaxDuration == 2
MaxMilestones == 2
MaxAmount == 1
MaxSecs == 2
MaxPeriods == 1
MaxUpdates == 1
MaxTokens == 3
MaxCampaigns == 3

\* ------------------------------------------------------- program constants
VOTING_PERIOD == 604800
APPROVAL_THRESHOLD == 60
MIN_PARTICIPATION == 30

\* block.timestamp of the block that deploys the campaign
StartTime == 1

\* ---------------------------------------------------------------- actors
creator == "creator"
beneficiary == "ben"
Users == {"creator", "alice"}

\* the larger population of the specifications that need more than two addresses
Voters == {"creator", "alice", "bob", "carol"}

\* the block timestamps the model samples
Times == { StartTime + (m * VOTING_PERIOD) + k : m \in 0..MaxPeriods, k \in 0..MaxSecs }

\* the values a caller may attach to contribute()
Values == 0..(MaxCap + 1)

VARIABLES
  now,                \* block.timestamp
  fundingCap,
  deadline,
  totalFundsRaised,
  finalized,
  successful,
  governanceEnabled,
  nftRewardsEnabled,
  contributions,      \* address -> wei
  contributors,       \* address[]
  milestones,         \* Milestone[], id i is element i + 1
  milestoneVotes,     \* id -> MilestoneVote, element i + 1
  fundsWithdrawn,
  nftMinted,          \* addresses with nftMinted[a] = true
  balance,            \* address(this).balance
  refundsPaid,        \* address -> wei sent to it by claimRefund
  beneficiaryReceived, \* wei sent to the beneficiary
  updates,            \* Update[]
  milestoneUpdates,   \* milestone id -> ids of its updates
  _status,            \* ReentrancyGuard's lock
  receiving,          \* the address whose receive code runs inside a transfer, if any
  refusing,           \* the addresses that reject incoming ether at the moment
  _nextTokenId,       \* ProofOfContribution
  authorizedCampaigns,
  campaignContributorTokens, \* campaign -> contributor -> token id
  contributionData,   \* token id -> ContributionData, id t is element t + 1
  campaigns,          \* CrowdfundFactory: every campaign created, in order
  isValidCampaign,    \* the addresses with isValidCampaign[a] = true
  campaignsByCreator, \* creator -> the campaigns it created, in order
  nftContract         \* the factory's NFT contract address

vars == << now, fundingCap, deadline, totalFundsRaised, finalized, successful,
           governanceEnabled, nftRewardsEnabled, contributions, contributors,
           milestones, milestoneVotes, fundsWithdrawn, nftMinted, balance,
           refundsPaid, beneficiaryReceived, updates, milestoneUpdates,
           _status, receiving, refusing, _nextTokenId, authorizedCampaigns,
           campaignContributorTokens, contributionData, campaigns,
           isValidCampaign, campaignsByCreator, nftContract >>

\* the state of the CrowdfundFactory contract
factoryVars == << campaigns, isValidCampaign, campaignsByCreator, nftContract >>

\* the state of one call in progress
guardVars == << _status, receiving >>

\* the state of the ProofOfContribution contract
hookVars == << _nextTokenId, authorizedCampaigns, campaignContributorTokens, contributionData >>

\* ---------------------------------------------------------------- helpers
RECURSIVE SumOver(_, _)
SumOver(f, S) ==
  IF S = {} THEN 0
  ELSE LET x == CHOOSE y \in S : TRUE IN f[x] + SumOver(f, S \ {x})

RECURSIVE SeqSum(_)
SeqSum(s) == IF s = << >> THEN 0 ELSE Head(s) + SeqSum(Tail(s))

Range(s) == { s[i] : i \in DOMAIN s }

NewMilestone(amt) == [amount |-> amt, completed |-> FALSE, fundsReleased |-> FALSE]

NewVote == [votesFor |-> 0, votesAgainst |-> 0, votingDeadline |-> 0,
            resolved |-> FALSE, approved |-> FALSE, hasVoted |-> {}]

\* all milestone amount lists a deployment may pass
RECURSIVE AmountLists(_)
AmountLists(n) ==
  IF n = 0 THEN { << >> }
  ELSE LET shorter == AmountLists(n - 1)
       IN shorter \cup { Append(s, a) : s \in { t \in shorter : Len(t) = n - 1 }, a \in 0..MaxAmount }

\* ---------------------------------------------------------------- surroundings
\* ReentrancyGuard's two values of _status
NOT_ENTERED == "NOT_ENTERED"
ENTERED == "ENTERED"

\* the campaign contracts that may call the ProofOfContribution contract
Campaigns == {"campaignA", "campaignB"}

\* no call in progress, every address accepts ether, a freshly deployed
\* ProofOfContribution contract (all storage zero) and a factory deployed
\* with its address
InitOutside ==
  /\ _status = NOT_ENTERED
  /\ receiving = {}
  /\ refusing = {}
  /\ _nextTokenId = 0
  /\ authorizedCampaigns = {}
  /\ campaignContributorTokens = [c \in Campaigns |-> [a \in Voters |-> 0]]
  /\ contributionData = << >>
  /\ campaigns = << >>
  /\ isValidCampaign = {}
  /\ campaignsByCreator = [a \in Users |-> << >>]
  /\ nftContract = "poc"

\* ---------------------------------------------------------------- constructor
constructor_ok(_beneficiary, _fundingCap, _duration) ==
  /\ _beneficiary # "0x0"
  /\ _fundingCap > 0
  /\ _duration > 0

Init ==
  /\ now = StartTime
  /\ \E _fundingCap \in 0..MaxCap, _duration \in 0..MaxDuration, amts \in AmountLists(MaxMilestones) :
       /\ constructor_ok(beneficiary, _fundingCap, _duration)
       /\ fundingCap = _fundingCap
       /\ deadline = now + _duration
       /\ milestones = [i \in 1..Len(amts) |-> NewMilestone(amts[i])]
       /\ milestoneVotes = [i \in 1..Len(amts) |-> NewVote]
  /\ governanceEnabled \in BOOLEAN
  /\ nftRewardsEnabled \in BOOLEAN
  /\ totalFundsRaised = 0
  /\ finalized = FALSE
  /\ successful = FALSE
  /\ contributions = [a \in Users |-> 0]
  /\ contributors = << >>
  /\ fundsWithdrawn = FALSE
  /\ nftMinted = {}
  /\ balance = 0
  /\ refundsPaid = [a \in Users |-> 0]
  /\ beneficiaryReceived = 0
  /\ updates = << >>
  /\ milestoneUpdates = [id \in 0..MaxMilestones |-> << >>]
  /\ InitOutside

\* onlyCreator without the sender check
onlyCreator_anyone(sender) == TRUE

\* ---------------------------------------------------------------- modifiers
\* nonReentrant without the lock
nonReentrant_off == TRUE

nonReentrant == _status # ENTERED

onlyCreator(sender) == sender = creator

onlyContributor(sender) == contributions[sender] > 0

\* campaignActive without the deadline check
campaignActive_noDeadline == ~finalized

campaignActive == ~finalized /\ now < deadline

\* ---------------------------------------------------------------- clock
Tick ==
  /\ \E t \in Times : t > now /\ now' = t
  /\ UNCHANGED << factoryVars, guardVars, refusing, hookVars, updates, milestoneUpdates, fundingCap, deadline, totalFundsRaised, finalized, successful,
                  governanceEnabled, nftRewardsEnabled, contributions, contributors,
                  milestones, milestoneVotes, fundsWithdrawn, nftMinted, balance,
                  refundsPaid, beneficiaryReceived >>

\* ---------------------------------------------------------------- contribute
\* contribute with < in place of <= in the cap check
contribute_ok_strict(sender, value) ==
  /\ nonReentrant
  /\ campaignActive
  /\ value > 0
  /\ totalFundsRaised + value < fundingCap

contribute_ok(sender, value) ==
  /\ nonReentrant
  /\ campaignActive
  /\ value > 0
  /\ totalFundsRaised + value <= fundingCap

\* contribute that pushes the sender on every contribution
contribute_alwaysPush(sender, value) ==
  /\ contribute_ok(sender, value)
  /\ contributors' = Append(contributors, sender)
  /\ contributions' = [contributions EXCEPT ![sender] = @ + value]
  /\ totalFundsRaised' = totalFundsRaised + value
  /\ balance' = balance + value
  /\ UNCHANGED << factoryVars, guardVars, refusing, hookVars, updates, milestoneUpdates, now, fundingCap, deadline, finalized, successful, governanceEnabled,
                  nftRewardsEnabled, milestones, milestoneVotes, fundsWithdrawn,
                  nftMinted, refundsPaid, beneficiaryReceived >>

contribute(sender, value) ==
  /\ contribute_ok(sender, value)
  /\ contributors' = IF contributions[sender] = 0 THEN Append(contributors, sender)
                     ELSE contributors
  /\ contributions' = [contributions EXCEPT ![sender] = @ + value]
  /\ totalFundsRaised' = totalFundsRaised + value
  /\ balance' = balance + value
  /\ UNCHANGED << factoryVars, guardVars, refusing, hookVars, updates, milestoneUpdates, now, fundingCap, deadline, finalized, successful, governanceEnabled,
                  nftRewardsEnabled, milestones, milestoneVotes, fundsWithdrawn,
                  nftMinted, refundsPaid, beneficiaryReceived >>

\* ---------------------------------------------------------------- finalize
\* finalize with > in place of >= in the deadline check
finalize_ok_late == nonReentrant /\ ~finalized /\ now > deadline

finalize_ok == nonReentrant /\ ~finalized /\ now >= deadline

\* _distributeNFTs without try/catch: one failed mint reverts the whole call,
\* so the loop only ever ends with every contributor minted
distributeNFTs_noCatch(minted) ==
  IF ~nftRewardsEnabled THEN { minted }
  ELSE { minted \cup Range(contributors) }

\* the sets nftMinted may become: each mint of a not yet minted contributor
\* either returns a token id or fails and is caught
distributeNFTs(minted) ==
  IF ~nftRewardsEnabled THEN { minted }
  ELSE { minted \cup S : S \in SUBSET (Range(contributors) \ minted) }

\* finalize with > in place of >= in the success test
finalize_strictSuccess(sender) ==
  /\ finalize_ok
  /\ finalized' = TRUE
  /\ successful' = (totalFundsRaised > fundingCap)
  /\ IF successful' /\ nftRewardsEnabled
       THEN nftMinted' \in distributeNFTs(nftMinted)
       ELSE nftMinted' = nftMinted
  /\ UNCHANGED << factoryVars, guardVars, refusing, hookVars, updates, milestoneUpdates, now, fundingCap, deadline, totalFundsRaised, governanceEnabled,
                  nftRewardsEnabled, contributions, contributors, milestones,
                  milestoneVotes, fundsWithdrawn, balance, refundsPaid,
                  beneficiaryReceived >>

finalize(sender) ==
  /\ finalize_ok
  /\ finalized' = TRUE
  /\ successful' = (totalFundsRaised >= fundingCap)
  /\ IF successful' /\ nftRewardsEnabled
       THEN nftMinted' \in distributeNFTs(nftMinted)
       ELSE nftMinted' = nftMinted
  /\ UNCHANGED << factoryVars, guardVars, refusing, hookVars, updates, milestoneUpdates, now, fundingCap, deadline, totalFundsRaised, governanceEnabled,
                  nftRewardsEnabled, contributions, contributors, milestones,
                  milestoneVotes, fundsWithdrawn, balance, refundsPaid,
                  beneficiaryReceived >>

\* ---------------------------------------------------------------- claimRefund
\* payable(x).transfer(amount) reverts when the contract holds less than amount
\* a transfer that does not fail when the contract holds too little
transfer_unchecked(to, amount) == TRUE

\* a transfer whose failure at the recipient is not propagated
transfer_ignoresRefusal(to, amount) == amount <= balance

transfer_ok(to, amount) == to \notin refusing /\ amount <= balance

\* claimRefund without require(finalized)
claimRefund_ok_early(sender) ==
  /\ nonReentrant
  /\ ~successful
  /\ contributions[sender] > 0
  /\ transfer_ok(sender, contributions[sender])

claimRefund_ok(sender) ==
  /\ nonReentrant
  /\ finalized
  /\ ~successful
  /\ contributions[sender] > 0
  /\ transfer_ok(sender, contributions[sender])

\* claimRefund that does not zero the record
claimRefund_keepsRecord(sender) ==
  /\ claimRefund_ok(sender)
  /\ LET contribution == contributions[sender] IN
       /\ contributions' = contributions
       /\ balance' = balance - contribution
       /\ refundsPaid' = [refundsPaid EXCEPT ![sender] = @ + contribution]
  /\ UNCHANGED << factoryVars, guardVars, refusing, hookVars, updates, milestoneUpdates, now, fundingCap, deadline, totalFundsRaised, finalized, successful,
                  governanceEnabled, nftRewardsEnabled, contributors, milestones,
                  milestoneVotes, fundsWithdrawn, nftMinted, beneficiaryReceived >>

\* claimRefund that sends the whole balance, as withdrawFunds does
claimRefund_sendsBalance(sender) ==
  /\ claimRefund_ok(sender)
  /\ LET contribution == balance IN
       /\ contributions' = [contributions EXCEPT ![sender] = 0]
       /\ balance' = balance - contribution
       /\ refundsPaid' = [refundsPaid EXCEPT ![sender] = @ + contribution]
  /\ UNCHANGED << factoryVars, guardVars, refusing, hookVars, updates, milestoneUpdates, now, fundingCap, deadline, totalFundsRaised, finalized, successful,
                  governanceEnabled, nftRewardsEnabled, contributors, milestones,
                  milestoneVotes, fundsWithdrawn, nftMinted, beneficiaryReceived >>

claimRefund(sender) ==
  /\ claimRefund_ok(sender)
  /\ LET contribution == contributions[sender] IN
       /\ contributions' = [contributions EXCEPT ![sender] = 0]
       /\ balance' = balance - contribution
       /\ refundsPaid' = [refundsPaid EXCEPT ![sender] = @ + contribution]
  /\ UNCHANGED << factoryVars, guardVars, refusing, hookVars, updates, milestoneUpdates, now, fundingCap, deadline, totalFundsRaised, finalized, successful,
                  governanceEnabled, nftRewardsEnabled, contributors, milestones,
                  milestoneVotes, fundsWithdrawn, nftMinted, beneficiaryReceived >>

\* ---------------------------------------------------------------- milestones
\* releaseMilestoneFunds without require(!milestone.fundsReleased)
releaseMilestoneFunds_ok_replay(sender, id) ==
  /\ nonReentrant
  /\ onlyCreator(sender)
  /\ finalized /\ successful
  /\ id < Len(milestones)
  /\ IF governanceEnabled
       THEN milestoneVotes[id + 1].resolved /\ milestoneVotes[id + 1].approved
       ELSE milestones[id + 1].completed
  /\ transfer_ok(beneficiary, milestones[id + 1].amount)

\* releaseMilestoneFunds that accepts any resolved vote under governance
releaseMilestoneFunds_ok_anyOutcome(sender, id) ==
  /\ nonReentrant
  /\ onlyCreator(sender)
  /\ finalized /\ successful
  /\ id < Len(milestones)
  /\ ~milestones[id + 1].fundsReleased
  /\ IF governanceEnabled
       THEN milestoneVotes[id + 1].resolved
       ELSE milestones[id + 1].completed
  /\ transfer_ok(beneficiary, milestones[id + 1].amount)

releaseMilestoneFunds_ok(sender, id) ==
  /\ nonReentrant
  /\ onlyCreator(sender)
  /\ finalized /\ successful
  /\ id < Len(milestones)
  /\ ~milestones[id + 1].fundsReleased
  /\ IF governanceEnabled
       THEN milestoneVotes[id + 1].resolved /\ milestoneVotes[id + 1].approved
       ELSE milestones[id + 1].completed
  /\ transfer_ok(beneficiary, milestones[id + 1].amount)

releaseMilestoneFunds(sender, id) ==
  /\ releaseMilestoneFunds_ok(sender, id)
  /\ milestones' = [milestones EXCEPT ![id + 1].fundsReleased = TRUE]
  /\ balance' = balance - milestones[id + 1].amount
  /\ beneficiaryReceived' = beneficiaryReceived + milestones[id + 1].amount
  /\ UNCHANGED << factoryVars, guardVars, refusing, hookVars, updates, milestoneUpdates, now, fundingCap, deadline, totalFundsRaised, finalized, successful,
                  governanceEnabled, nftRewardsEnabled, contributions, contributors,
                  milestoneVotes, fundsWithdrawn, nftMinted, refundsPaid >>

\* withdrawFunds without the onlyCreator modifier
withdrawFunds_ok_anyone(sender) ==
  /\ nonReentrant
  /\ finalized
  /\ successful
  /\ Len(milestones) = 0
  /\ ~fundsWithdrawn
  /\ balance > 0
  /\ transfer_ok(beneficiary, balance)

\* withdrawFunds without the requirement of an empty milestone list
withdrawFunds_ok_withMilestones(sender) ==
  /\ nonReentrant
  /\ onlyCreator(sender)
  /\ finalized
  /\ successful
  /\ ~fundsWithdrawn
  /\ balance > 0
  /\ transfer_ok(beneficiary, balance)

withdrawFunds_ok(sender) ==
  /\ nonReentrant
  /\ onlyCreator(sender)
  /\ finalized
  /\ successful
  /\ Len(milestones) = 0
  /\ ~fundsWithdrawn
  /\ balance > 0
  /\ transfer_ok(beneficiary, balance)

withdrawFunds(sender) ==
  /\ withdrawFunds_ok(sender)
  /\ fundsWithdrawn' = TRUE
  /\ LET amount == balance IN
       /\ balance' = balance - amount
       /\ beneficiaryReceived' = beneficiaryReceived + amount
  /\ UNCHANGED << factoryVars, guardVars, refusing, hookVars, updates, milestoneUpdates, now, fundingCap, deadline, totalFundsRaised, finalized, successful,
                  governanceEnabled, nftRewardsEnabled, contributions, contributors,
                  milestones, milestoneVotes, nftMinted, refundsPaid >>

\* ---------------------------------------------------------------- governance
\* completeMilestone without require(finalized && successful)
completeMilestone_ok_anyPhase(sender, id) ==
  /\ onlyCreator(sender)
  /\ governanceEnabled
  /\ id < Len(milestones)
  /\ ~milestones[id + 1].completed
  /\ milestoneVotes[id + 1].votingDeadline = 0
  /\ now + VOTING_PERIOD \in Times

\* completeMilestone without require(vote.votingDeadline == 0)
completeMilestone_ok_restart(sender, id) ==
  /\ onlyCreator(sender)
  /\ governanceEnabled
  /\ finalized /\ successful
  /\ id < Len(milestones)
  /\ ~milestones[id + 1].completed
  /\ now + VOTING_PERIOD \in Times

completeMilestone_ok(sender, id) ==
  /\ onlyCreator(sender)
  /\ governanceEnabled
  /\ finalized /\ successful
  /\ id < Len(milestones)
  /\ ~milestones[id + 1].completed
  /\ milestoneVotes[id + 1].votingDeadline = 0
  /\ now + VOTING_PERIOD \in Times

completeMilestone(sender, id) ==
  /\ completeMilestone_ok(sender, id)
  /\ milestoneVotes' = [milestoneVotes EXCEPT ![id + 1].votingDeadline = now + VOTING_PERIOD]
  /\ UNCHANGED << factoryVars, guardVars, refusing, hookVars, updates, milestoneUpdates, now, fundingCap, deadline, totalFundsRaised, finalized, successful,
                  governanceEnabled, nftRewardsEnabled, contributions, contributors,
                  milestones, fundsWithdrawn, nftMinted, balance, refundsPaid,
                  beneficiaryReceived >>

\* _resolveVote: the participation check and the division by totalVotes
resolveVote_ok(vote) ==
  LET totalVotes == vote.votesFor + vote.votesAgainst
      totalContributors == Len(contributors)
      minVotes == (totalContributors * MIN_PARTICIPATION) \div 100
  IN /\ totalVotes >= minVotes
     /\ totalVotes # 0

\* _resolveVote that approves on a simple majority of the votes cast
resolveVote_majority(vote) ==
  LET totalVotes == vote.votesFor + vote.votesAgainst
      approvalPercentage == (vote.votesFor * 100) \div totalVotes
  IN [vote EXCEPT !.resolved = TRUE,
                  !.approved = (approvalPercentage >= 50)]

resolveVote(vote) ==
  LET totalVotes == vote.votesFor + vote.votesAgainst
      approvalPercentage == (vote.votesFor * 100) \div totalVotes
  IN [vote EXCEPT !.resolved = TRUE,
                  !.approved = (approvalPercentage >= APPROVAL_THRESHOLD)]

\* the storage after _resolveVote(id) ran on the vote record v
\* _resolveVote that records the approval and leaves the milestone alone
applyResolve_voteOnly(id, v) ==
  LET r == resolveVote(v) IN
    /\ milestoneVotes' = [milestoneVotes EXCEPT ![id + 1] = r]
    /\ milestones' = milestones

\* _resolveVote that marks the milestone completed whatever the outcome
applyResolve_anyOutcome(id, v) ==
  LET r == resolveVote(v) IN
    /\ milestoneVotes' = [milestoneVotes EXCEPT ![id + 1] = r]
    /\ milestones' = [milestones EXCEPT ![id + 1].completed = TRUE]

applyResolve(id, v) ==
  LET r == resolveVote(v) IN
    /\ milestoneVotes' = [milestoneVotes EXCEPT ![id + 1] = r]
    /\ milestones' = IF r.approved
                       THEN [milestones EXCEPT ![id + 1].completed = TRUE]
                       ELSE milestones

\* voteOnMilestone without require(!vote.hasVoted[msg.sender])
voteOnMilestone_ok_revote(sender, id, support) ==
  /\ onlyContributor(sender)
  /\ governanceEnabled
  /\ id < Len(milestones)
  /\ ~milestones[id + 1].completed
  /\ ~milestoneVotes[id + 1].resolved
  /\ now <= milestoneVotes[id + 1].votingDeadline

voteOnMilestone_ok(sender, id, support) ==
  /\ onlyContributor(sender)
  /\ governanceEnabled
  /\ id < Len(milestones)
  /\ ~milestones[id + 1].completed
  /\ ~milestoneVotes[id + 1].resolved
  /\ now <= milestoneVotes[id + 1].votingDeadline
  /\ sender \notin milestoneVotes[id + 1].hasVoted

\* a vote weighted by the voter's contribution
castVote_weighted(vote, sender, support) ==
  [vote EXCEPT !.votesFor = IF support THEN @ + contributions[sender] ELSE @,
               !.votesAgainst = IF support THEN @ ELSE @ + contributions[sender],
               !.hasVoted = @ \cup {sender}]

castVote(vote, sender, support) ==
  [vote EXCEPT !.votesFor = IF support THEN @ + 1 ELSE @,
               !.votesAgainst = IF support THEN @ ELSE @ + 1,
               !.hasVoted = @ \cup {sender}]

\* _tryAutoResolve that resolves as soon as the participation minimum is met
tryAutoResolve_atQuorum(vote) ==
  vote.votesFor + vote.votesAgainst >= (Len(contributors) * MIN_PARTICIPATION) \div 100

\* _tryAutoResolve: resolve only when every contributor has voted
tryAutoResolve(vote) == vote.votesFor + vote.votesAgainst = Len(contributors)

voteOnMilestone(sender, id, support) ==
  /\ voteOnMilestone_ok(sender, id, support)
  /\ LET v == castVote(milestoneVotes[id + 1], sender, support) IN
       IF tryAutoResolve(v)
         THEN resolveVote_ok(v) /\ applyResolve(id, v)
         ELSE /\ milestoneVotes' = [milestoneVotes EXCEPT ![id + 1] = v]
              /\ milestones' = milestones
  /\ UNCHANGED << factoryVars, guardVars, refusing, hookVars, updates, milestoneUpdates, now, fundingCap, deadline, totalFundsRaised, finalized, successful,
                  governanceEnabled, nftRewardsEnabled, contributions, contributors,
                  fundsWithdrawn, nftMinted, balance, refundsPaid, beneficiaryReceived >>

\* resolveMilestoneVote without the deadline-or-full-turnout requirement
resolveMilestoneVote_ok_early(sender, id) ==
  /\ governanceEnabled
  /\ id < Len(milestones)
  /\ ~milestoneVotes[id + 1].resolved
  /\ resolveVote_ok(milestoneVotes[id + 1])

resolveMilestoneVote_ok(sender, id) ==
  /\ governanceEnabled
  /\ id < Len(milestones)
  /\ ~milestoneVotes[id + 1].resolved
  /\ LET vote == milestoneVotes[id + 1]
         totalVotes == vote.votesFor + vote.votesAgainst
         totalContributors == Len(contributors)
     IN now > vote.votingDeadline \/ totalVotes = totalContributors
  /\ resolveVote_ok(milestoneVotes[id + 1])

\* resolveMilestoneVote with a fallback: a vote without any vote cast is
\* recorded as rejected in place of the failing division
resolveMilestoneVote_zeroRejects(sender, id) ==
  /\ governanceEnabled
  /\ id < Len(milestones)
  /\ ~milestoneVotes[id + 1].resolved
  /\ LET vote == milestoneVotes[id + 1]
         totalVotes == vote.votesFor + vote.votesAgainst
     IN /\ now > vote.votingDeadline \/ totalVotes = Len(contributors)
        /\ IF totalVotes = 0
             THEN /\ milestoneVotes' = [milestoneVotes EXCEPT ![id + 1].resolved = TRUE]
                  /\ milestones' = milestones
             ELSE resolveVote_ok(vote) /\ applyResolve(id, vote)
  /\ UNCHANGED << factoryVars, guardVars, refusing, hookVars, updates, milestoneUpdates, now, fundingCap, deadline, totalFundsRaised, finalized, successful,
                  governanceEnabled, nftRewardsEnabled, contributions, contributors,
                  fundsWithdrawn, nftMinted, balance, refundsPaid, beneficiaryReceived >>

resolveMilestoneVote(sender, id) ==
  /\ resolveMilestoneVote_ok(sender, id)
  /\ applyResolve(id, milestoneVotes[id + 1])
  /\ UNCHANGED << factoryVars, guardVars, refusing, hookVars, updates, milestoneUpdates, now, fundingCap, deadline, totalFundsRaised, finalized, successful,
                  governanceEnabled, nftRewardsEnabled, contributions, contributors,
                  fundsWithdrawn, nftMinted, balance, refundsPaid, beneficiaryReceived >>

\* toggleGovernance without require(!finalized)
toggleGovernance_ok_anytime(sender) == onlyCreator(sender)

toggleGovernance_ok(sender) == onlyCreator(sender) /\ ~finalized

toggleGovernance(sender) ==
  /\ toggleGovernance_ok(sender)
  /\ governanceEnabled' = ~governanceEnabled
  /\ UNCHANGED << factoryVars, guardVars, refusing, hookVars, updates, milestoneUpdates, now, fundingCap, deadline, totalFundsRaised, finalized, successful,
                  nftRewardsEnabled, contributions, contributors, milestones,
                  milestoneVotes, fundsWithdrawn, nftMinted, balance, refundsPaid,
                  beneficiaryReceived >>

\* ---------------------------------------------------------------- updates
\* type(uint256).max, the milestone id of an update that belongs to no milestone
NoMilestone == -1

\* the milestone ids a caller may pass to postUpdate (none of them is checked)
UpdateTargets == (0..MaxMilestones) \cup {NoMilestone}

postUpdate_ok(sender) == onlyCreator(sender) /\ Len(updates) < MaxUpdates

\* title and ipfsHash are opaque strings and left out of the record
postUpdate(sender, _milestoneId) ==
  /\ postUpdate_ok(sender)
  /\ LET updateId == Len(updates) IN
       /\ updates' = Append(updates, [timestamp |-> now, milestoneId |-> _milestoneId])
       /\ milestoneUpdates' =
            IF _milestoneId # NoMilestone
              THEN [milestoneUpdates EXCEPT ![_milestoneId] = Append(@, updateId)]
              ELSE milestoneUpdates
  /\ UNCHANGED << factoryVars, guardVars, refusing, hookVars, now, fundingCap, deadline, totalFundsRaised, finalized, successful,
                  governanceEnabled, nftRewardsEnabled, contributions, contributors,
                  milestones, milestoneVotes, fundsWithdrawn, nftMinted, balance,
                  refundsPaid, beneficiaryReceived >>

\* ---------------------------------------------------------------- specification
Next ==
  \/ Tick
  \/ \E a \in Users, v \in Values : contribute(a, v)
  \/ \E a \in Users : finalize(a)
  \/ \E a \in Users : claimRefund(a)
  \/ \E a \in Users, id \in 0..MaxMilestones : releaseMilestoneFunds(a, id)
  \/ \E a \in Users : withdrawFunds(a)
  \/ \E a \in Users, id \in 0..MaxMilestones : completeMilestone(a, id)
  \/ \E a \in Users, id \in 0..MaxMilestones, s \in BOOLEAN : voteOnMilestone(a, id, s)
  \/ \E a \in Users, id \in 0..MaxMilestones : resolveMilestoneVote(a, id)
  \/ \E a \in Users : toggleGovernance(a)

Spec == Init /\ [][Next]_vars

\* a campaign with four possible contributors, whose cap lets each of them
\* take part: 30% of four is not a whole number, so the rounding of the
\* participation minimum shows
InitQuorum ==
  /\ now = StartTime
  /\ \E amts \in AmountLists(1) :
       /\ constructor_ok(beneficiary, Cardinality(Voters), 1)
       /\ fundingCap = Cardinality(Voters)
       /\ deadline = now + 1
       /\ milestones = [i \in 1..Len(amts) |-> NewMilestone(amts[i])]
       /\ milestoneVotes = [i \in 1..Len(amts) |-> NewVote]
  /\ governanceEnabled = TRUE
  /\ nftRewardsEnabled = FALSE
  /\ totalFundsRaised = 0
  /\ finalized = FALSE
  /\ successful = FALSE
  /\ contributions = [a \in Voters |-> 0]
  /\ contributors = << >>
  /\ fundsWithdrawn = FALSE
  /\ nftMinted = {}
  /\ balance = 0
  /\ refundsPaid = [a \in Voters |-> 0]
  /\ beneficiaryReceived = 0
  /\ updates = << >>
  /\ milestoneUpdates = [id \in 0..MaxMilestones |-> << >>]
  /\ InitOutside

NextQuorum ==
  \/ Tick
  \/ \E a \in Voters, v \in Values : contribute(a, v)
  \/ \E a \in Voters : finalize(a)
  \/ \E a \in Voters : claimRefund(a)
  \/ \E a \in Voters, id \in 0..MaxMilestones : releaseMilestoneFunds(a, id)
  \/ \E a \in Voters : withdrawFunds(a)
  \/ \E a \in Voters, id \in 0..MaxMilestones : completeMilestone(a, id)
  \/ \E a \in Voters, id \in 0..MaxMilestones, s \in BOOLEAN : voteOnMilestone(a, id, s)
  \/ \E a \in Voters, id \in 0..MaxMilestones : resolveMilestoneVote(a, id)
  \/ \E a \in Voters : toggleGovernance(a)

SpecQuorum == InitQuorum /\ [][NextQuorum]_vars

\* ---------------------------------------------------------------- reentrancy
\* claimRefund up to its transfer: the record is zeroed, the ether has left,
\* the lock is held and the recipient's code is running
claimRefund_transfer(sender) ==
  /\ claimRefund_ok(sender)
  /\ LET contribution == contributions[sender] IN
       /\ contributions' = [contributions EXCEPT ![sender] = 0]
       /\ balance' = balance - contribution
       /\ refundsPaid' = [refundsPaid EXCEPT ![sender] = @ + contribution]
  /\ _status' = ENTERED
  /\ receiving' = {sender}
  /\ UNCHANGED << factoryVars, refusing, hookVars, updates, milestoneUpdates, now, fundingCap, deadline,
                  totalFundsRaised, finalized, successful, governanceEnabled,
                  nftRewardsEnabled, contributors, milestones, milestoneVotes,
                  fundsWithdrawn, nftMinted, beneficiaryReceived >>

\* releaseMilestoneFunds up to its transfer
releaseMilestoneFunds_transfer(sender, id) ==
  /\ releaseMilestoneFunds_ok(sender, id)
  /\ milestones' = [milestones EXCEPT ![id + 1].fundsReleased = TRUE]
  /\ balance' = balance - milestones[id + 1].amount
  /\ beneficiaryReceived' = beneficiaryReceived + milestones[id + 1].amount
  /\ _status' = ENTERED
  /\ receiving' = {beneficiary}
  /\ UNCHANGED << factoryVars, refusing, hookVars, updates, milestoneUpdates, now, fundingCap, deadline,
                  totalFundsRaised, finalized, successful, governanceEnabled,
                  nftRewardsEnabled, contributions, contributors, milestoneVotes,
                  fundsWithdrawn, nftMinted, refundsPaid >>

\* withdrawFunds up to its transfer
withdrawFunds_transfer(sender) ==
  /\ withdrawFunds_ok(sender)
  /\ fundsWithdrawn' = TRUE
  /\ beneficiaryReceived' = beneficiaryReceived + balance
  /\ balance' = 0
  /\ _status' = ENTERED
  /\ receiving' = {beneficiary}
  /\ UNCHANGED << factoryVars, refusing, hookVars, updates, milestoneUpdates, now, fundingCap, deadline,
                  totalFundsRaised, finalized, successful, governanceEnabled,
                  nftRewardsEnabled, contributions, contributors, milestones,
                  milestoneVotes, nftMinted, refundsPaid >>

\* the recipient's code returns; the transfer and the call around it complete
\* and nonReentrant releases the lock
transferReturns ==
  /\ receiving # {}
  /\ receiving' = {}
  /\ _status' = NOT_ENTERED
  /\ UNCHANGED << factoryVars, refusing, hookVars, updates, milestoneUpdates, now, fundingCap, deadline,
                  totalFundsRaised, finalized, successful, governanceEnabled,
                  nftRewardsEnabled, contributions, contributors, milestones,
                  milestoneVotes, fundsWithdrawn, nftMinted, balance, refundsPaid,
                  beneficiaryReceived >>

\* campaigns without rewards
InitReentrant == Init /\ ~nftRewardsEnabled

\* every operation may be called at top level or, while a transfer is in
\* progress, from the code of its recipient; the block timestamp does not
\* move inside a transaction
NextReentrant ==
  \/ receiving = {} /\ Tick
  \/ \E a \in Users, v \in Values : contribute(a, v)
  \/ \E a \in Users : finalize(a)
  \/ \E a \in Users : claimRefund(a)
  \/ \E a \in Users, id \in 0..MaxMilestones : releaseMilestoneFunds(a, id)
  \/ \E a \in Users : withdrawFunds(a)
  \/ \E a \in Users, id \in 0..MaxMilestones : completeMilestone(a, id)
  \/ \E a \in Users, id \in 0..MaxMilestones, s \in BOOLEAN : voteOnMilestone(a, id, s)
  \/ \E a \in Users, id \in 0..MaxMilestones : resolveMilestoneVote(a, id)
  \/ \E a \in Users : toggleGovernance(a)
  \/ \E a \in Users : claimRefund_transfer(a)
  \/ \E a \in Users, id \in 0..MaxMilestones : releaseMilestoneFunds_transfer(a, id)
  \/ \E a \in Users : withdrawFunds_transfer(a)
  \/ transferReturns

SpecReentrant == InitReentrant /\ [][NextReentrant]_vars

\* ---------------------------------------------------------------- refusing recipients
\* the addresses ether is sent to
Recipients == Users \cup {beneficiary}

\* a recipient starts or stops rejecting ether (its receive code decides)
recipientsChange(S) ==
  /\ refusing' = S
  /\ refusing' # refusing
  /\ UNCHANGED << factoryVars, guardVars, hookVars, updates, milestoneUpdates, now, fundingCap, deadline,
                  totalFundsRaised, finalized, successful, governanceEnabled,
                  nftRewardsEnabled, contributions, contributors, milestones,
                  milestoneVotes, fundsWithdrawn, nftMinted, balance, refundsPaid,
                  beneficiaryReceived >>

\* campaigns without rewards and with at most one milestone
InitRefusal == Init /\ ~nftRewardsEnabled /\ Len(milestones) <= 1

NextRefusal ==
  \/ Next
  \/ \E S \in SUBSET Recipients : recipientsChange(S)

SpecRefusal == InitRefusal /\ [][NextRefusal]_vars

\* ---------------------------------------------------------------- ProofOfContribution
\* the deployer of the ProofOfContribution contract
owner == "owner"

\* the addresses that call the ProofOfContribution contract
HookCallers == Campaigns \cup {owner}

onlyOwner(sender) == sender = owner

authorizeCampaign(sender, campaign) ==
  /\ onlyOwner(sender)
  /\ campaign # "0x0"
  /\ authorizedCampaigns' = authorizedCampaigns \cup {campaign}
  /\ UNCHANGED << factoryVars, _nextTokenId, campaignContributorTokens, contributionData,
                  guardVars, refusing, updates, milestoneUpdates, now, fundingCap,
                  deadline, totalFundsRaised, finalized, successful, governanceEnabled,
                  nftRewardsEnabled, contributions, contributors, milestones,
                  milestoneVotes, fundsWithdrawn, nftMinted, balance, refundsPaid,
                  beneficiaryReceived >>

revokeCampaign(sender, campaign) ==
  /\ onlyOwner(sender)
  /\ authorizedCampaigns' = authorizedCampaigns \ {campaign}
  /\ UNCHANGED << factoryVars, _nextTokenId, campaignContributorTokens, contributionData,
                  guardVars, refusing, updates, milestoneUpdates, now, fundingCap,
                  deadline, totalFundsRaised, finalized, successful, governanceEnabled,
                  nftRewardsEnabled, contributions, contributors, milestones,
                  milestoneVotes, fundsWithdrawn, nftMinted, balance, refundsPaid,
                  beneficiaryReceived >>

mintContribution_ok(sender, contributor, amount) ==
  /\ sender \in authorizedCampaigns
  /\ contributor # "0x0"
  /\ amount > 0
  /\ LET existingToken == campaignContributorTokens[sender][contributor]
     IN existingToken = 0
  /\ _nextTokenId < MaxTokens

\* a mint whose _safeMint is rejected by the contributor reverts and is a
\* stuttering step
mintContribution(sender, contributor, amount) ==
  /\ mintContribution_ok(sender, contributor, amount)
  /\ LET tokenId == _nextTokenId IN
       /\ _nextTokenId' = _nextTokenId + 1
       /\ contributionData' = Append(contributionData,
            [campaign |-> sender, contributor |-> contributor, amount |-> amount,
             timestamp |-> now])
       /\ campaignContributorTokens' =
            [campaignContributorTokens EXCEPT ![sender][contributor] = tokenId]
  /\ UNCHANGED << factoryVars, authorizedCampaigns,
                  guardVars, refusing, updates, milestoneUpdates, now, fundingCap,
                  deadline, totalFundsRaised, finalized, successful, governanceEnabled,
                  nftRewardsEnabled, contributions, contributors, milestones,
                  milestoneVotes, fundsWithdrawn, nftMinted, balance, refundsPaid,
                  beneficiaryReceived >>

hasNFT(campaign, contributor) == campaignContributorTokens[campaign][contributor] # 0

\* the tokens minted for a (campaign, contributor) pair
TokensOf(campaign, contributor) ==
  { t \in DOMAIN contributionData :
      /\ contributionData[t].campaign = campaign
      /\ contributionData[t].contributor = contributor }

\* one campaign with rewards, left as deployed while the hook is exercised
InitHook ==
  /\ Init
  /\ fundingCap = MaxCap /\ deadline = now + MaxDuration /\ milestones = << >>
  /\ ~governanceEnabled /\ nftRewardsEnabled

NextHook ==
  \/ Tick
  \/ \E s \in HookCallers, c \in Campaigns : authorizeCampaign(s, c)
  \/ \E s \in HookCallers, c \in Campaigns : revokeCampaign(s, c)
  \/ \E s \in HookCallers, a \in Voters, v \in 0..MaxAmount : mintContribution(s, a, v)

SpecHook == InitHook /\ [][NextHook]_vars

\* ---------------------------------------------------------------- CrowdfundFactory
\* the address of the contract the factory's n-th successful creation deploys
NewCampaign(n) == n

\* the arguments callers pass to createCampaign
Beneficiaries == {"0x0", beneficiary}
NftContracts == {"0x0", "poc", "poc2"}

updateNFTContract(_nftContract) ==
  /\ _nftContract # "0x0"
  /\ nftContract' = _nftContract
  /\ UNCHANGED << campaigns, isValidCampaign, campaignsByCreator,
                  guardVars, refusing, hookVars, updates, milestoneUpdates, now,
                  fundingCap, deadline, totalFundsRaised, finalized, successful,
                  governanceEnabled, nftRewardsEnabled, contributions, contributors,
                  milestones, milestoneVotes, fundsWithdrawn, nftMinted, balance,
                  refundsPaid, beneficiaryReceived >>

\* createCampaign that registers the address without running the constructor
createCampaign_ok_unchecked(sender, _beneficiary, _duration, _fundingCap) ==
  Len(campaigns) < MaxCampaigns

\* new Crowdfund(...) reverts when the campaign's constructor rejects
createCampaign_ok(sender, _beneficiary, _duration, _fundingCap) ==
  /\ constructor_ok(_beneficiary, _fundingCap, _duration)
  /\ Len(campaigns) < MaxCampaigns

createCampaign(sender, _beneficiary, _duration, _fundingCap) ==
  /\ createCampaign_ok(sender, _beneficiary, _duration, _fundingCap)
  /\ LET campaignAddress == NewCampaign(Len(campaigns) + 1) IN
       /\ campaigns' = Append(campaigns, campaignAddress)
       /\ isValidCampaign' = isValidCampaign \cup {campaignAddress}
       /\ campaignsByCreator' = [campaignsByCreator EXCEPT ![sender] = Append(@, campaignAddress)]
  /\ UNCHANGED << nftContract,
                  guardVars, refusing, hookVars, updates, milestoneUpdates, now,
                  fundingCap, deadline, totalFundsRaised, finalized, successful,
                  governanceEnabled, nftRewardsEnabled, contributions, contributors,
                  milestones, milestoneVotes, fundsWithdrawn, nftMinted, balance,
                  refundsPaid, beneficiaryReceived >>

getCampaignCount == Len(campaigns)

\* one campaign left as deployed while the factory is exercised
InitFactory ==
  /\ Init
  /\ fundingCap = MaxCap /\ deadline = now + MaxDuration /\ milestones = << >>
  /\ ~governanceEnabled /\ ~nftRewardsEnabled

NextFactory ==
  \/ Tick
  \/ \E n \in NftContracts : updateNFTContract(n)
  \/ \E a \in Users, b \in Beneficiaries, d \in 0..MaxDuration, c \in 0..MaxCap :
       createCampaign(a, b, d, c)

SpecFactory == InitFactory /\ [][NextFactory]_vars

\* the campaign together with its update log; the log is independent of the
\* milestone schedule, so campaigns with at most one milestone are explored
InitUpdates == Init /\ Len(milestones) <= 1

NextUpdates ==
  \/ Next
  \/ \E a \in Users, m \in UpdateTargets : postUpdate(a, m)

SpecUpdates == InitUpdates /\ [][NextUpdates]_vars

\* ================================================================ properties

\* wei sent by releaseMilestoneFunds according to the fundsReleased flags
ReleasedSum(ms) ==
  SeqSum([i \in 1..Len(ms) |-> IF ms[i].fundsReleased THEN ms[i].amount ELSE 0])

TotalRefunded == SumOver(refundsPaid, Users)

AnyRelease == fundsWithdrawn \/ \E i \in DOMAIN milestones : milestones[i].fundsReleased

\* C1 (as stated): in every reachable state the sum of all contribution
\* records equals totalFundsRaised.
C1_SumEqualsTotal == SumOver(contributions, Users) = totalFundsRaised

\* C1 (amended): the sum of all contribution records plus the wei already
\* paid out by claimRefund equals totalFundsRaised; so the two are equal
\* as long as no refund has been paid.
C1_SumPlusRefundsEqualsTotal ==
  /\ SumOver(contributions, Users) + TotalRefunded = totalFundsRaised
  /\ (TotalRefunded = 0 => SumOver(contributions, Users) = totalFundsRaised)

\* a refund was paid while another contributor still holds a record
C1_Witness ==
  \E a, b \in Users : a # b /\ refundsPaid[a] > 0 /\ contributions[b] > 0

\* C2: the wei sent to the beneficiary (the lump sum, or the amounts of the
\* released milestones) never exceeds totalFundsRaised, whatever milestone
\* list the campaign was deployed with.
C2_ReleasedWithinRaised ==
  /\ beneficiaryReceived <= totalFundsRaised
  /\ Len(milestones) > 0 => beneficiaryReceived = ReleasedSum(milestones)
  /\ Len(milestones) = 0 => (beneficiaryReceived > 0 => fundsWithdrawn)

\* everything raised is released and an approved milestone is still unpaid
C2_Witness ==
  /\ beneficiaryReceived = totalFundsRaised
  /\ beneficiaryReceived > 0
  /\ \E i \in DOMAIN milestones :
       /\ ~milestones[i].fundsReleased
       /\ milestones[i].amount > 0
       /\ milestoneVotes[i].resolved /\ milestoneVotes[i].approved

\* C3: claimRefund succeeds at most once per address: after a refund the
\* record is zero and stays zero, no further refund is paid to the address
\* and every later claimRefund of the address is rejected.
C3_RefundAtMostOnce ==
  /\ [](\A a \in Users : refundsPaid[a] > 0 =>
            contributions[a] = 0 /\ ~ENABLED claimRefund(a))
  /\ [][\A a \in Users : refundsPaid[a] > 0 =>
            refundsPaid'[a] = refundsPaid[a] /\ contributions'[a] = 0]_vars

\* an address was refunded and the escrow still holds another one's wei
C3_Witness == \E a \in Users : refundsPaid[a] > 0 /\ balance > 0

\* C4: a milestone is released at most once: fundsReleased never goes back
\* to false, and the beneficiary receives exactly the amounts of the
\* milestones whose flag a step sets, so a released milestone is never
\* paid again.
C4_ReleaseAtMostOnce ==
  /\ [](\A i \in DOMAIN milestones : milestones[i].fundsReleased =>
            \A a \in Users : ~ENABLED releaseMilestoneFunds(a, i - 1))
  /\ [][/\ \A i \in DOMAIN milestones :
              milestones[i].fundsReleased => milestones'[i].fundsReleased
        /\ Len(milestones) > 0 =>
              beneficiaryReceived' - beneficiaryReceived
                = ReleasedSum(milestones') - ReleasedSum(milestones)]_vars

\* a released milestone whose amount the escrow could pay once more
C4_Witness ==
  \E i \in DOMAIN milestones :
    /\ milestones[i].fundsReleased
    /\ milestones[i].amount > 0
    /\ balance >= milestones[i].amount

\* C5: withdrawFunds succeeds only for the creator, only in a finalized
\* successful campaign without milestones and only once; it sends the whole
\* balance to the beneficiary.
C5_LumpSumRelease ==
  /\ [](\A a \in Users : ENABLED withdrawFunds(a) =>
            /\ a = creator
            /\ finalized /\ successful
            /\ Len(milestones) = 0
            /\ ~fundsWithdrawn)
  /\ [][fundsWithdrawn => fundsWithdrawn']_vars
  /\ [][(fundsWithdrawn' # fundsWithdrawn
          \/ (Len(milestones) = 0 /\ beneficiaryReceived' # beneficiaryReceived)) =>
            /\ finalized /\ successful /\ Len(milestones) = 0
            /\ ~fundsWithdrawn /\ fundsWithdrawn'
            /\ beneficiaryReceived' = beneficiaryReceived + balance
            /\ balance' = 0]_vars

\* the lump sum was released: the beneficiary holds everything raised
C5_Witness ==
  /\ fundsWithdrawn
  /\ balance = 0
  /\ beneficiaryReceived = totalFundsRaised
  /\ beneficiaryReceived > 0

\* C6: a refund is paid only in a finalized campaign that was not
\* successful, so no campaign has both a refund and a release.
C6_RefundOnlyWhenFailed ==
  /\ [](\A a \in Users : ENABLED claimRefund(a) => finalized /\ ~successful)
  /\ [](TotalRefunded > 0 => ~AnyRelease /\ beneficiaryReceived = 0)
  /\ [][\A a \in Users :
          (refundsPaid'[a] # refundsPaid[a] \/ contributions'[a] < contributions[a])
            => finalized /\ ~successful]_vars

\* past the deadline, not finalized: a contributor's refund is covered by
\* the balance and yet not available
C6_Witness ==
  /\ now >= deadline
  /\ ~finalized
  /\ totalFundsRaised < fundingCap
  /\ \E a \in Users : contributions[a] > 0 /\ balance >= contributions[a]

\* C7: in a finalized failed campaign claimRefund of a contributor with
\* record a > 0 succeeds, pays exactly a to that contributor, zeroes that
\* record and leaves every other record alone; an address without a record
\* is rejected.
C7_RefundExact ==
  /\ [](\A a \in Users :
          /\ (contributions[a] = 0 => ~ENABLED claimRefund(a))
          /\ (finalized /\ ~successful /\ contributions[a] > 0
                => ENABLED claimRefund(a)))
  /\ [][\A a \in Users : refundsPaid'[a] # refundsPaid[a] =>
          /\ contributions[a] > 0
          /\ refundsPaid'[a] = refundsPaid[a] + contributions[a]
          /\ balance' = balance - contributions[a]
          /\ contributions'[a] = 0
          /\ \A b \in Users \ {a} :
               /\ contributions'[b] = contributions[b]
               /\ refundsPaid'[b] = refundsPaid[b]]_vars

\* one contributor was refunded, the other one's record and wei are intact
C7_Witness ==
  \E a, b \in Users :
    /\ a # b
    /\ refundsPaid[a] > 0 /\ contributions[a] = 0
    /\ contributions[b] > 0 /\ refundsPaid[b] = 0
    /\ balance = contributions[b]

\* C8: totalFundsRaised never decreases and never exceeds fundingCap; while
\* the campaign is open a contribution of exactly the remaining room is
\* accepted and one of a single wei more is rejected.
C8_CapRespected ==
  /\ [](totalFundsRaised <= fundingCap)
  /\ [](~finalized /\ now < deadline /\ totalFundsRaised < fundingCap =>
          \A a \in Users :
            /\ ENABLED contribute(a, fundingCap - totalFundsRaised)
            /\ ~ENABLED contribute(a, fundingCap - totalFundsRaised + 1))
  /\ [][/\ totalFundsRaised' >= totalFundsRaised
        /\ totalFundsRaised' <= fundingCap]_vars

\* an open campaign filled exactly to the cap by two contributors
C8_Witness ==
  /\ ~finalized
  /\ totalFundsRaised = fundingCap
  /\ Len(contributors) = 2

\* C9: a contribution is accepted only while the campaign is open (not
\* finalized, now < deadline) and only with a positive value; from the
\* deadline on nothing a contribution writes ever changes.
C9_ContributeOnlyWhenOpen ==
  /\ [](\A a \in Users, v \in Values :
          ENABLED contribute(a, v) => ~finalized /\ now < deadline /\ v > 0)
  /\ [][(\/ totalFundsRaised' # totalFundsRaised
         \/ contributors' # contributors
         \/ balance' > balance
         \/ \E a \in Users : contributions'[a] > contributions[a]) =>
            /\ ~finalized /\ now < deadline
            /\ totalFundsRaised' > totalFundsRaised]_vars

\* the deadline is reached with room left under the cap
C9_Witness ==
  /\ now >= deadline
  /\ ~finalized
  /\ totalFundsRaised < fundingCap
  /\ totalFundsRaised > 0

\* C10: finalize is accepted from any caller exactly when the campaign is
\* not finalized and now >= deadline, and never a second time.
C10_FinalizeWindow ==
  /\ [](\A a \in Users : ENABLED finalize(a) <=> (~finalized /\ now >= deadline))
  /\ [][finalized' # finalized => ~finalized /\ now >= deadline]_vars

\* the campaign was finalized in the block whose timestamp is the deadline
C10_Witness == finalized /\ now = deadline

\* C11: finalized only goes from false to true; the step that finalizes
\* sets successful to totalFundsRaised >= fundingCap, and from then on
\* successful keeps that value.
C11_FinalizedOneWay ==
  /\ [](finalized => successful = (totalFundsRaised >= fundingCap))
  /\ [][finalized => finalized' /\ successful' = successful]_vars
  /\ [][~finalized /\ finalized' =>
          successful' = (totalFundsRaised >= fundingCap)]_vars

\* a successful campaign in which value was released after finalization
C11_Witness == finalized /\ successful /\ beneficiaryReceived > 0

\* C12: every deployed campaign has only milestone amounts > 0 and a
\* milestone total <= fundingCap.
C12_MilestonesValidated ==
  /\ \A i \in DOMAIN milestones : milestones[i].amount > 0
  /\ SeqSum([i \in 1..Len(milestones) |-> milestones[i].amount]) <= fundingCap

\* C13: every milestone whose funds are released is completed.
C13_ReleasedImpliesCompleted ==
  \A i \in DOMAIN milestones : milestones[i].fundsReleased => milestones[i].completed

\* a milestone was released
C13_Witness ==
  \E i \in DOMAIN milestones : milestones[i].fundsReleased /\ milestones[i].amount > 0

\* a milestone that is eligible for release and not yet released
Releasable(i) ==
  /\ finalized /\ successful
  /\ ~milestones[i].fundsReleased
  /\ IF governanceEnabled
       THEN milestoneVotes[i].resolved /\ milestoneVotes[i].approved
       ELSE milestones[i].completed
  /\ milestones[i].amount <= balance

\* C14: in a finalized successful campaign any caller can trigger
\* releaseMilestoneFunds for a milestone that is eligible and not yet
\* released.
C14_AnyoneCanRelease ==
  \A i \in DOMAIN milestones :
    Releasable(i) => \A a \in Users : ENABLED releaseMilestoneFunds(a, i - 1)

\* C15: in a finalized successful campaign with governance disabled the
\* creator's completeMilestone on a valid, not yet completed milestone is
\* accepted.
C15_CreatorCompletesWithoutGovernance ==
  (finalized /\ successful /\ ~governanceEnabled) =>
    \A i \in DOMAIN milestones :
      ~milestones[i].completed => ENABLED completeMilestone(creator, i - 1)

MilestoneTotal == SeqSum([i \in 1..Len(milestones) |-> milestones[i].amount])

\* C16: in a successful campaign without governance whose milestone amounts
\* sum to fundingCap, the sequence completeMilestone(i), releaseMilestoneFunds(i)
\* can be run to the end: whenever the creator has no such call left that
\* would be accepted, the beneficiary holds fundingCap and the escrow is empty.
C16_WorkflowRunsToTheEnd ==
  (/\ finalized /\ successful /\ ~governanceEnabled
   /\ Len(milestones) > 0
   /\ MilestoneTotal = fundingCap
   /\ \A i \in DOMAIN milestones :
        /\ ~ENABLED completeMilestone(creator, i - 1)
        /\ ~ENABLED releaseMilestoneFunds(creator, i - 1))
    => (beneficiaryReceived = fundingCap /\ balance = 0)

\* C17: completeMilestone is rejected when the campaign is not finalized,
\* when it was not successful, when the id is out of range and when the
\* milestone is already completed; nothing it writes changes in those cases.
C17_CompleteMilestoneRejected ==
  /\ [](\A a \in Users, id \in 0..MaxMilestones :
          ENABLED completeMilestone(a, id) =>
            /\ finalized /\ successful
            /\ id < Len(milestones)
            /\ ~milestones[id + 1].completed)
  /\ [][\A i \in DOMAIN milestoneVotes :
          milestoneVotes'[i].votingDeadline # milestoneVotes[i].votingDeadline =>
            finalized /\ successful /\ ~milestones[i].completed]_vars

\* one milestone is completed while the vote on another can still be started
C17_Witness ==
  /\ governanceEnabled
  /\ \E i, j \in DOMAIN milestones :
       /\ milestones[i].completed
       /\ ~milestones[j].completed
       /\ milestoneVotes[j].votingDeadline = 0
       /\ ENABLED completeMilestone(creator, j - 1)

\* C18: a creator-gated operation (completeMilestone, withdrawFunds,
\* toggleGovernance, postUpdate) goes through only for the creator: called by
\* any other address it is rejected, and the reverted call changes nothing.
C18_CreatorGated ==
  \A a \in Users \ {creator} :
    /\ \A id \in 0..MaxMilestones : ~ENABLED completeMilestone(a, id)
    /\ ~ENABLED withdrawFunds(a)
    /\ ~ENABLED toggleGovernance(a)
    /\ \A m \in UpdateTargets : ~ENABLED postUpdate(a, m)

\* the creator has posted an update and can still withdraw, while another
\* address holds a stake in the campaign
C18_Witness ==
  /\ Len(updates) > 0
  /\ ENABLED withdrawFunds(creator)
  /\ \E a \in Users \ {creator} : a \in Range(contributors)

\* C19: with governance enabled, releaseMilestoneFunds goes through only for a
\* milestone whose vote is resolved and approved; a vote resolved as rejected
\* stays so, hence an unstarted, open or rejected milestone is never released.
C19_ReleaseNeedsApproval ==
  /\ [](governanceEnabled =>
          \A i \in DOMAIN milestones :
            /\ (\E a \in Users : ENABLED releaseMilestoneFunds(a, i - 1)) =>
                 milestoneVotes[i].resolved /\ milestoneVotes[i].approved
            /\ milestones[i].fundsReleased =>
                 milestoneVotes[i].resolved /\ milestoneVotes[i].approved)
  /\ [][governanceEnabled =>
          \A i \in DOMAIN milestones :
            (~milestones[i].fundsReleased /\ milestones'[i].fundsReleased) =>
               milestoneVotes[i].resolved /\ milestoneVotes[i].approved]_vars
  /\ [][\A i \in DOMAIN milestoneVotes :
          milestoneVotes[i].resolved =>
            /\ milestoneVotes'[i].resolved
            /\ milestoneVotes'[i].approved = milestoneVotes[i].approved]_vars

\* a rejected milestone whose amount the contract could pay
C19_Witness ==
  /\ governanceEnabled /\ finalized /\ successful
  /\ \E i \in DOMAIN milestones :
       /\ milestoneVotes[i].resolved /\ ~milestoneVotes[i].approved
       /\ ~milestones[i].fundsReleased
       /\ milestones[i].amount > 0
       /\ milestones[i].amount <= balance

\* C20: on every milestone votesFor + votesAgainst never exceeds the number of
\* distinct contributors, every vote counted belongs to one contributor who
\* voted once, and a second voteOnMilestone by the same address is rejected.
C20_OneVotePerContributor ==
  /\ [](/\ Cardinality(Range(contributors)) = Len(contributors)
        /\ \A i \in DOMAIN milestoneVotes :
             /\ milestoneVotes[i].votesFor + milestoneVotes[i].votesAgainst <= Len(contributors)
             /\ milestoneVotes[i].votesFor + milestoneVotes[i].votesAgainst
                  = Cardinality(milestoneVotes[i].hasVoted)
             /\ milestoneVotes[i].hasVoted \subseteq Range(contributors)
             /\ \A a \in milestoneVotes[i].hasVoted, s \in BOOLEAN :
                  ~ENABLED voteOnMilestone(a, i - 1, s))
  /\ [][\A i \in DOMAIN milestoneVotes :
          \/ /\ milestoneVotes'[i].votesFor = milestoneVotes[i].votesFor
             /\ milestoneVotes'[i].votesAgainst = milestoneVotes[i].votesAgainst
             /\ milestoneVotes'[i].hasVoted = milestoneVotes[i].hasVoted
          \/ \E a \in Range(contributors) \ milestoneVotes[i].hasVoted :
               /\ milestoneVotes'[i].hasVoted = milestoneVotes[i].hasVoted \cup {a}
               /\ milestoneVotes'[i].votesFor + milestoneVotes'[i].votesAgainst
                    = milestoneVotes[i].votesFor + milestoneVotes[i].votesAgainst + 1]_vars

\* an open vote on which one of two contributors has voted
C20_Witness ==
  \E i \in DOMAIN milestoneVotes :
    /\ Len(contributors) = 2
    /\ Cardinality(milestoneVotes[i].hasVoted) = 1
    /\ ~milestoneVotes[i].resolved
    /\ now <= milestoneVotes[i].votingDeadline

\* C21: a vote cast during the voting period resolves the milestone vote only
\* when it completes the turnout (every distinct contributor has then voted);
\* with a smaller turnout the vote is resolved only after the voting deadline
\* has passed, whatever the tally is.
C21_NoEarlyResolution ==
  [][\A i \in DOMAIN milestoneVotes :
       (~milestoneVotes[i].resolved /\ milestoneVotes'[i].resolved) =>
         /\ milestoneVotes'[i].hasVoted # milestoneVotes[i].hasVoted =>
              milestoneVotes'[i].hasVoted = Range(contributors)
         /\ \/ now > milestoneVotes[i].votingDeadline
            \/ /\ milestoneVotes'[i].votesFor + milestoneVotes'[i].votesAgainst = Len(contributors)
               /\ milestoneVotes'[i].hasVoted = Range(contributors)]_vars

\* one of two contributors has voted in favour, the period is open and the
\* vote is unresolved although the tally is unanimous
C21_Witness ==
  \E i \in DOMAIN milestoneVotes :
    /\ Len(contributors) = 2
    /\ milestoneVotes[i].votesFor = 1 /\ milestoneVotes[i].votesAgainst = 0
    /\ now <= milestoneVotes[i].votingDeadline
    /\ ~milestoneVotes[i].resolved

\* C22: resolving a milestone vote goes through only when the participation
\* votesFor + votesAgainst is at least 30% of the distinct contributor count
\* rounded up, that is when participation * 100 >= contributors * 30.
C22_QuorumRoundsUp ==
  \A i \in DOMAIN milestoneVotes, a \in Voters :
    ENABLED resolveMilestoneVote(a, i - 1) =>
      (milestoneVotes[i].votesFor + milestoneVotes[i].votesAgainst) * 100
        >= Len(contributors) * MIN_PARTICIPATION

\* C23: a milestone vote that resolves with participation p >= 1 is approved
\* exactly when votesFor * 100 \div p >= 60, that is exactly when
\* votesFor * 100 >= 60 * p; an approved milestone becomes completed and a
\* rejected one keeps completed = false.
C23_ApprovalThreshold ==
  [][\A i \in DOMAIN milestoneVotes :
       (~milestoneVotes[i].resolved /\ milestoneVotes'[i].resolved) =>
         LET f == milestoneVotes'[i].votesFor
             p == milestoneVotes'[i].votesFor + milestoneVotes'[i].votesAgainst
         IN /\ p >= 1
            /\ milestoneVotes'[i].approved = ((f * 100) \div p >= APPROVAL_THRESHOLD)
            /\ milestoneVotes'[i].approved = (f * 100 >= APPROVAL_THRESHOLD * p)
            /\ milestoneVotes'[i].approved => milestones'[i].completed
            /\ ~milestoneVotes'[i].approved =>
                 ~milestones'[i].completed /\ ~milestones[i].completed]_vars

\* a vote resolved as rejected on a tie, and the milestone is not completed
C23_Witness ==
  \E i \in DOMAIN milestoneVotes :
    /\ milestoneVotes[i].resolved /\ ~milestoneVotes[i].approved
    /\ milestoneVotes[i].votesFor = milestoneVotes[i].votesAgainst
    /\ milestoneVotes[i].votesFor >= 1
    /\ ~milestones[i].completed

\* C24: resolveMilestoneVote is open to every caller, and it goes through only
\* on a vote that is not yet resolved, after the voting deadline or once all
\* contributors have voted; resolved only changes from false to true, approved
\* never changes after resolution, and a resolved vote cannot be resolved again.
C24_ResolveOnce ==
  /\ [](\A id \in 0..MaxMilestones :
          /\ \A a, b \in Voters :
               ENABLED resolveMilestoneVote(a, id) <=> ENABLED resolveMilestoneVote(b, id)
          /\ \A a \in Voters :
               ENABLED resolveMilestoneVote(a, id) =>
                 /\ id < Len(milestones)
                 /\ ~milestoneVotes[id + 1].resolved
                 /\ \/ now > milestoneVotes[id + 1].votingDeadline
                    \/ milestoneVotes[id + 1].votesFor + milestoneVotes[id + 1].votesAgainst
                         = Len(contributors))
  /\ [][\A i \in DOMAIN milestoneVotes :
          /\ milestoneVotes[i].resolved =>
               /\ milestoneVotes'[i].resolved
               /\ milestoneVotes'[i].approved = milestoneVotes[i].approved
          /\ (~milestoneVotes[i].resolved /\ milestoneVotes'[i].resolved) =>
               \/ now > milestoneVotes[i].votingDeadline
               \/ milestoneVotes'[i].votesFor + milestoneVotes'[i].votesAgainst
                    = Len(contributors)]_vars

\* after the deadline an address that never contributed can resolve a vote
\* on which only part of the contributors voted
C24_Witness ==
  \E a \in Voters, i \in DOMAIN milestoneVotes :
    /\ contributions[a] = 0
    /\ now > milestoneVotes[i].votingDeadline
    /\ milestoneVotes[i].votingDeadline > 0
    /\ milestoneVotes[i].votesFor + milestoneVotes[i].votesAgainst < Len(contributors)
    /\ ENABLED resolveMilestoneVote(a, i - 1)

\* C25: voting on a milestone is started only by the creator, only in a
\* finalized successful campaign, only for a milestone that is not completed
\* and whose votingDeadline is 0; the start sets votingDeadline to now plus
\* seven days, and a non-zero votingDeadline never changes again.
C25_VotingStartsOnce ==
  /\ [](\A a \in Users, id \in 0..MaxMilestones :
          ENABLED completeMilestone(a, id) =>
            /\ a = creator
            /\ finalized /\ successful
            /\ id < Len(milestones)
            /\ ~milestones[id + 1].completed
            /\ milestoneVotes[id + 1].votingDeadline = 0)
  /\ [][\A i \in DOMAIN milestoneVotes :
          milestoneVotes'[i].votingDeadline # milestoneVotes[i].votingDeadline =>
            /\ milestoneVotes[i].votingDeadline = 0
            /\ milestoneVotes'[i].votingDeadline = now + (7 * 24 * 60 * 60)
            /\ finalized /\ successful
            /\ ~milestones[i].completed]_vars

\* voting was started some seconds ago, is still open and unresolved, and
\* the milestone is not completed: a restart would move the deadline
C25_Witness ==
  \E i \in DOMAIN milestoneVotes :
    /\ milestoneVotes[i].votingDeadline > now
    /\ milestoneVotes[i].votingDeadline < now + VOTING_PERIOD
    /\ now + VOTING_PERIOD \in Times
    /\ ~milestoneVotes[i].resolved
    /\ ~milestones[i].completed

\* C26: voteOnMilestone goes through only for a caller with a non-zero
\* contribution, on a milestone whose voting has been started, with
\* now <= votingDeadline, the vote unresolved and the milestone not completed;
\* otherwise no tally and no hasVoted entry changes; a vote that goes through
\* adds exactly 1 to exactly one of votesFor and votesAgainst, whatever the
\* voter contributed.
C26_VoteAccepted ==
  /\ [](\A a \in Users, id \in 0..MaxMilestones, s \in BOOLEAN :
          ENABLED voteOnMilestone(a, id, s) =>
            /\ contributions[a] > 0
            /\ id < Len(milestones)
            /\ milestoneVotes[id + 1].votingDeadline # 0
            /\ now <= milestoneVotes[id + 1].votingDeadline
            /\ ~milestoneVotes[id + 1].resolved
            /\ ~milestones[id + 1].completed)
  /\ [][\A i \in DOMAIN milestoneVotes :
          (\/ milestoneVotes'[i].votesFor # milestoneVotes[i].votesFor
           \/ milestoneVotes'[i].votesAgainst # milestoneVotes[i].votesAgainst
           \/ milestoneVotes'[i].hasVoted # milestoneVotes[i].hasVoted) =>
            /\ milestoneVotes[i].votingDeadline # 0
            /\ now <= milestoneVotes[i].votingDeadline
            /\ ~milestoneVotes[i].resolved
            /\ ~milestones[i].completed
            /\ \E a \in Users :
                 /\ contributions[a] > 0
                 /\ a \notin milestoneVotes[i].hasVoted
                 /\ milestoneVotes'[i].hasVoted = milestoneVotes[i].hasVoted \cup {a}
            /\ \/ /\ milestoneVotes'[i].votesFor = milestoneVotes[i].votesFor + 1
                  /\ milestoneVotes'[i].votesAgainst = milestoneVotes[i].votesAgainst
               \/ /\ milestoneVotes'[i].votesFor = milestoneVotes[i].votesFor
                  /\ milestoneVotes'[i].votesAgainst = milestoneVotes[i].votesAgainst + 1]_vars

\* a contributor of more than one wei has voted and counts as one vote
C26_Witness ==
  \E i \in DOMAIN milestoneVotes, a \in Users :
    /\ a \in milestoneVotes[i].hasVoted
    /\ contributions[a] >= 2
    /\ milestoneVotes[i].votesFor + milestoneVotes[i].votesAgainst = 1

\* C29: finalize of a campaign that reached its cap, with rewards enabled,
\* completes with finalized = true and successful = true whatever subset of
\* the mint calls fails, and the mint of a later contributor is attempted
\* (and may succeed) also when the mints of earlier contributors failed.
C29_MintFailuresTolerated ==
  /\ [](\A a \in Users :
          (finalize_ok /\ nftRewardsEnabled /\ totalFundsRaised >= fundingCap) =>
            \A S \in SUBSET Range(contributors) :
              ENABLED (finalize(a) /\ finalized' /\ successful' /\ nftMinted' = S))
  /\ [][(~finalized /\ finalized' /\ nftRewardsEnabled /\ totalFundsRaised >= fundingCap) =>
          successful' /\ nftMinted' \subseteq Range(contributors)]_vars

\* the mint of the first contributor failed and the mint of the second went
\* through, in a finalized successful campaign
C29_Witness ==
  /\ finalized /\ successful /\ nftRewardsEnabled
  /\ Len(contributors) = 2
  /\ nftMinted = {contributors[2]}

\* C27: while the transfer of claimRefund, releaseMilestoneFunds or
\* withdrawFunds is in progress every value-moving operation is rejected and
\* no wei leaves the contract, so a call from the recipient's code cannot pay
\* a second time: a refund pays exactly the recorded contribution once and
\* the beneficiary holds exactly the amounts of the released milestones.
C27_NoSecondPayout ==
  /\ [](receiving # {} =>
          \A a \in Users :
            /\ ~ENABLED claimRefund(a) /\ ~ENABLED claimRefund_transfer(a)
            /\ ~ENABLED withdrawFunds(a) /\ ~ENABLED withdrawFunds_transfer(a)
            /\ \A id \in 0..MaxMilestones :
                 /\ ~ENABLED releaseMilestoneFunds(a, id)
                 /\ ~ENABLED releaseMilestoneFunds_transfer(a, id))
  /\ [][receiving # {} =>
          /\ refundsPaid' = refundsPaid
          /\ beneficiaryReceived' = beneficiaryReceived
          /\ balance' = balance]_vars
  /\ [][\A a \in Users :
          refundsPaid'[a] # refundsPaid[a] =>
            refundsPaid[a] = 0 /\ refundsPaid'[a] = contributions[a]]_vars
  /\ [](/\ SumOver(contributions, Users) + TotalRefunded = totalFundsRaised
        /\ Len(milestones) > 0 => beneficiaryReceived = ReleasedSum(milestones)
        /\ beneficiaryReceived <= totalFundsRaised)

\* the code of a refund's recipient is running and the contract still holds
\* enough to pay the same refund again
C27_Witness ==
  \E a \in Users :
    /\ receiving = {a}
    /\ refundsPaid[a] > 0
    /\ balance >= refundsPaid[a]

\* C28: when the recipient rejects the transfer of claimRefund,
\* releaseMilestoneFunds or withdrawFunds the call fails as a whole: the
\* contribution record is not zeroed, fundsReleased and fundsWithdrawn stay
\* false, and the same call goes through once the recipient accepts again.
C28_TransferFailureReverts ==
  /\ [](/\ \A a \in Users : a \in refusing => ~ENABLED claimRefund(a)
        /\ beneficiary \in refusing =>
             \A a \in Users :
               /\ ~ENABLED withdrawFunds(a)
               /\ \A id \in 0..MaxMilestones : ~ENABLED releaseMilestoneFunds(a, id))
  /\ [][/\ \A a \in refusing \cap Users : contributions'[a] >= contributions[a]
        /\ beneficiary \in refusing =>
             /\ fundsWithdrawn' = fundsWithdrawn
             /\ \A i \in DOMAIN milestones :
                  milestones'[i].fundsReleased = milestones[i].fundsReleased
             /\ beneficiaryReceived' = beneficiaryReceived]_vars
  /\ [](/\ \A a \in Users :
             (finalized /\ ~successful /\ contributions[a] > 0 /\ a \notin refusing) =>
               ENABLED claimRefund(a)
        /\ (finalized /\ successful /\ beneficiary \notin refusing) =>
             /\ (Len(milestones) = 0 /\ ~fundsWithdrawn /\ balance > 0) =>
                  ENABLED withdrawFunds(creator)
             /\ \A i \in DOMAIN milestones :
                  (/\ ~milestones[i].fundsReleased
                   /\ milestones[i].amount <= balance
                   /\ IF governanceEnabled
                        THEN milestoneVotes[i].resolved /\ milestoneVotes[i].approved
                        ELSE milestones[i].completed) =>
                    ENABLED releaseMilestoneFunds(creator, i - 1))

\* a contributor of a failed campaign rejects ether and keeps the record,
\* while another contributor has been refunded
C28_Witness ==
  \E a, b \in Users :
    /\ a \in refusing
    /\ finalized /\ ~successful
    /\ contributions[a] > 0
    /\ refundsPaid[b] > 0

\* C30: the ProofOfContribution contract issues at most one token per
\* (campaign, contributor) pair: after one mintContribution went through for
\* the pair every further mintContribution for it fails and hasNFT is true.
C30_OneTokenPerPair ==
  \A c \in Campaigns, a \in Voters :
    /\ Cardinality(TokensOf(c, a)) <= 1
    /\ TokensOf(c, a) # {} =>
         /\ hasNFT(c, a)
         /\ (c \in authorizedCampaigns /\ _nextTokenId < MaxTokens) =>
              \A v \in 0..MaxAmount : ~ENABLED mintContribution(c, a, v)

\* C31: governanceEnabled changes only through toggleGovernance called by the
\* creator while the campaign is not finalized; once finalized is true it
\* keeps its value under every later operation.
C31_GovernanceFrozen ==
  /\ [](\A a \in Users : ENABLED toggleGovernance(a) => a = creator /\ ~finalized)
  /\ [][governanceEnabled' # governanceEnabled =>
          /\ ~finalized /\ ~finalized'
          /\ ENABLED toggleGovernance(creator)
          /\ UNCHANGED << contributions, contributors, totalFundsRaised, balance,
                          milestones, milestoneVotes >>]_vars
  /\ [][finalized => governanceEnabled' = governanceEnabled]_vars

\* a finalized successful campaign under governance with a vote in progress,
\* the point where a switch of the flag would change the release rule
C31_Witness ==
  /\ finalized /\ successful /\ governanceEnabled
  /\ \E i \in DOMAIN milestoneVotes :
       /\ milestoneVotes[i].hasVoted # {}
       /\ ~milestoneVotes[i].resolved
  /\ ~ENABLED toggleGovernance(creator)

\* C32: a createCampaign that goes through appends exactly one new address to
\* the end of campaigns and of the caller's campaignsByCreator list and marks
\* it valid; entries are never removed or reordered, so getCampaignCount is
\* the number of creations; a creation whose constructor rejects is refused
\* and leaves the registry as it was.
C32_RegistryAppendOnly ==
  /\ [](/\ isValidCampaign = Range(campaigns)
        /\ Cardinality(Range(campaigns)) = getCampaignCount
        /\ SumOver([a \in Users |-> Len(campaignsByCreator[a])], Users) = getCampaignCount
        /\ \A a, b \in Users :
             a # b => Range(campaignsByCreator[a]) \cap Range(campaignsByCreator[b]) = {}
        /\ \A a \in Users : Range(campaignsByCreator[a]) \subseteq isValidCampaign
        /\ \A a \in Users, b \in Beneficiaries, d \in 0..MaxDuration, c \in 0..MaxCap :
             ~constructor_ok(b, c, d) => ~ENABLED createCampaign(a, b, d, c))
  /\ [][<< campaigns, isValidCampaign, campaignsByCreator >>'
          # << campaigns, isValidCampaign, campaignsByCreator >> =>
          \E a \in Users :
            LET c == campaigns'[Len(campaigns')] IN
              /\ c \notin isValidCampaign
              /\ campaigns' = Append(campaigns, c)
              /\ isValidCampaign' = isValidCampaign \cup {c}
              /\ campaignsByCreator' = [campaignsByCreator EXCEPT ![a] = Append(@, c)]]_vars

\* two creators have registered campaigns, one of them twice
C32_Witness ==
  \E a, b \in Users :
    /\ a # b
    /\ Len(campaignsByCreator[a]) = 2
    /\ Len(campaignsByCreator[b]) = 1
    /\ getCampaignCount = 3

\* C33: contributors never holds an address twice and grows only at its end,
\* by an address at its first contribution; as long as no refund was paid it
\* holds exactly the addresses with a non-zero contribution record; its
\* length is the number of votes that resolves a vote before the deadline.
C33_ContributorList ==
  /\ [](/\ Cardinality(Range(contributors)) = Len(contributors)
        /\ TotalRefunded = 0 =>
             Range(contributors) = { a \in Users : contributions[a] > 0 }
        /\ \A a \in Users : contributions[a] > 0 => a \in Range(contributors))
  /\ [][\/ contributors' = contributors
        \/ \E a \in Users :
             /\ contributions[a] = 0 /\ contributions'[a] > 0
             /\ a \notin Range(contributors)
             /\ contributors' = Append(contributors, a)]_vars
  /\ [][\A a \in Users :
          (contributions[a] > 0 /\ contributions'[a] > contributions[a]) =>
            contributors' = contributors]_vars
  /\ [][\A i \in DOMAIN milestoneVotes :
          (/\ ~milestoneVotes[i].resolved /\ milestoneVotes'[i].resolved
           /\ now <= milestoneVotes[i].votingDeadline) =>
            milestoneVotes'[i].votesFor + milestoneVotes'[i].votesAgainst
              = Len(contributors)]_vars

\* the first contributor came back after the second one joined, and the
\* list still holds each of them once, in the order of their first payment
C33_Witness ==
  /\ Len(contributors) = 2
  /\ contributions[contributors[1]] >= 2
  /\ contributions[contributors[2]] >= 1
  /\ TotalRefunded = 0 /\ ~finalized

\* C34: a vote whose deadline has passed with fewer votes than the quorum
\* (30% of the contributors, rounded up) stays unresolved forever: no vote
\* is accepted, every resolveMilestoneVote fails, and no step changes the
\* vote record or the milestone's completed and fundsReleased flags.
C34_BelowQuorumStaysPending ==
  /\ [](\A i \in DOMAIN milestoneVotes :
          (/\ milestoneVotes[i].votingDeadline # 0
           /\ now > milestoneVotes[i].votingDeadline
           /\ ~milestoneVotes[i].resolved
           /\ (milestoneVotes[i].votesFor + milestoneVotes[i].votesAgainst) * 100
                < Len(contributors) * MIN_PARTICIPATION) =>
            \A a \in Voters :
              /\ ~ENABLED resolveMilestoneVote(a, i - 1)
              /\ \A support \in BOOLEAN : ~ENABLED voteOnMilestone(a, i - 1, support)
              /\ ~ENABLED releaseMilestoneFunds(a, i - 1))
  /\ [][\A i \in DOMAIN milestoneVotes :
          (/\ milestoneVotes[i].votingDeadline # 0
           /\ now > milestoneVotes[i].votingDeadline
           /\ ~milestoneVotes[i].resolved
           /\ (milestoneVotes[i].votesFor + milestoneVotes[i].votesAgainst) * 100
                < Len(contributors) * MIN_PARTICIPATION) =>
            /\ milestoneVotes'[i] = milestoneVotes[i]
            /\ milestones'[i] = milestones[i]]_vars

\* C35: the wei held by the escrow equals totalFundsRaised minus the refunds
\* paid minus the wei released to the beneficiary and is never negative; it
\* moves only by a contribution coming in or a refund or release going out,
\* and what goes out in one step is at most what the escrow held.
C35_EscrowBalance ==
  /\ [](/\ balance = totalFundsRaised - TotalRefunded - beneficiaryReceived
        /\ balance >= 0
        /\ ~successful => balance = SumOver(contributions, Users)
        /\ (successful /\ Len(milestones) > 0) =>
             balance = totalFundsRaised - ReleasedSum(milestones)
        /\ (successful /\ Len(milestones) = 0) =>
             balance = IF fundsWithdrawn THEN 0 ELSE totalFundsRaised)
  /\ [][/\ balance' > balance =>
             /\ totalFundsRaised' - totalFundsRaised = balance' - balance
             /\ UNCHANGED << refundsPaid, beneficiaryReceived >>
        /\ balance' < balance =>
             /\ totalFundsRaised' = totalFundsRaised
             /\ balance - balance' <= balance
             /\ \/ /\ beneficiaryReceived' - beneficiaryReceived = balance - balance'
                   /\ UNCHANGED refundsPaid
                \/ /\ UNCHANGED beneficiaryReceived
                   /\ \E a \in Users :
                        refundsPaid' = [refundsPaid EXCEPT ![a] = @ + balance - balance']]_vars

\* one milestone was paid out while the rest of the raised wei is still held
C35_Witness ==
  /\ successful
  /\ beneficiaryReceived > 0
  /\ balance > 0
  /\ \E i \in DOMAIN milestones : milestones[i].fundsReleased /\ milestones[i].amount > 0

\* C36: once the vote on a milestone is resolved as rejected, the milestone
\* is never completed and never released, its vote record never changes,
\* completeMilestone, voteOnMilestone, resolveMilestoneVote and
\* releaseMilestoneFunds fail for it for every caller, no refund is
\* possible, and the escrow keeps holding at least the milestone's amount.
C36_RejectedStaysInEscrow ==
  /\ [](\A i \in DOMAIN milestoneVotes :
          (milestoneVotes[i].resolved /\ ~milestoneVotes[i].approved) =>
            /\ successful
            /\ ~milestones[i].completed /\ ~milestones[i].fundsReleased
            /\ balance >= milestones[i].amount
            /\ \A a \in Users :
                 /\ ~ENABLED completeMilestone(a, i - 1)
                 /\ ~ENABLED resolveMilestoneVote(a, i - 1)
                 /\ ~ENABLED releaseMilestoneFunds(a, i - 1)
                 /\ ~ENABLED claimRefund(a)
                 /\ \A support \in BOOLEAN : ~ENABLED voteOnMilestone(a, i - 1, support))
  /\ [][\A i \in DOMAIN milestoneVotes :
          (milestoneVotes[i].resolved /\ ~milestoneVotes[i].approved) =>
            /\ milestoneVotes'[i] = milestoneVotes[i]
            /\ milestones'[i] = milestones[i]]_vars

\* C37: a resolved vote had its voting started and holds at least one vote:
\* resolveMilestoneVote fails for every caller on a vote with zero votes,
\* whether or not voting was started and however many contributors there are.
C37_ResolvedHasVotes ==
  /\ [](\A i \in DOMAIN milestoneVotes :
          /\ milestoneVotes[i].resolved =>
               /\ milestoneVotes[i].votingDeadline # 0
               /\ milestoneVotes[i].votesFor + milestoneVotes[i].votesAgainst >= 1
               /\ milestoneVotes[i].hasVoted # {}
          /\ milestoneVotes[i].votesFor + milestoneVotes[i].votesAgainst = 0 =>
               \A a \in Voters : ~ENABLED resolveMilestoneVote(a, i - 1))
  /\ [][\A i \in DOMAIN milestoneVotes :
          (~milestoneVotes[i].resolved /\ milestoneVotes'[i].resolved) =>
            /\ milestoneVotes[i].votingDeadline # 0
            /\ milestoneVotes'[i].votesFor + milestoneVotes'[i].votesAgainst >= 1]_vars

\* the voting period ended with no vote among three contributors, where the
\* participation minimum is zero, and the resolution still fails
C37_Witness ==
  \E i \in DOMAIN milestoneVotes :
    /\ milestoneVotes[i].votingDeadline # 0
    /\ now > milestoneVotes[i].votingDeadline
    /\ milestoneVotes[i].votesFor + milestoneVotes[i].votesAgainst = 0
    /\ Len(contributors) = 3
    /\ \A a \in Voters : ~ENABLED resolveMilestoneVote(a, i - 1)

C39_FrozenAtFinalize ==
  /\ [](/\ \A a, b \in Users : \A v \in Values :
             ~(ENABLED contribute(a, v) /\ ENABLED finalize(b))
        /\ finalized => \A a \in Users : \A v \in Values : ~ENABLED contribute(a, v)
        /\ \A i \in DOMAIN milestoneVotes :
             milestoneVotes[i].votingDeadline # 0 => finalized /\ successful)
  /\ [][(finalized \/ finalized') =>
          /\ totalFundsRaised' = totalFundsRaised
          /\ contributors' = contributors
          /\ finalized'
          /\ successful' => contributions' = contributions]_vars
  /\ [][(\E i \in DOMAIN milestoneVotes : milestoneVotes[i].votingDeadline # 0) =>
          /\ contributors' = contributors
          /\ contributions' = contributions]_vars

\* a finalized campaign below its cap, with wei raised, takes no contribution
C39_Witness ==
  /\ finalized /\ ~successful
  /\ 0 < totalFundsRaised /\ totalFundsRaised < fundingCap
  /\ \A a \in Users : \A v \in Values : ~ENABLED contribute(a, v)

\* C40: in a successful campaign with at least one milestone the escrow
\* never holds less than totalFundsRaised minus the sum of the milestone
\* amounts: withdrawFunds and claimRefund fail for every caller and each
\* outgoing payment is the amount of one milestone, released once; once
\* every milestone is released, what is left never leaves the escrow.
C40_RemainderLocked ==
  /\ []((successful /\ Len(milestones) > 0) =>
          /\ balance >= totalFundsRaised - MilestoneTotal
          /\ \A a \in Users : ~ENABLED withdrawFunds(a) /\ ~ENABLED claimRefund(a)
          /\ (\A i \in DOMAIN milestones : milestones[i].fundsReleased) =>
               \A a \in Users, id \in 0..MaxMilestones : ~ENABLED releaseMilestoneFunds(a, id))
  /\ [][(successful /\ Len(milestones) > 0 /\ balance' # balance) =>
          \E i \in DOMAIN milestones :
            /\ ~milestones[i].fundsReleased /\ milestones'[i].fundsReleased
            /\ balance' = balance - milestones[i].amount]_vars
  /\ [][(/\ successful /\ Len(milestones) > 0
         /\ \A i \in DOMAIN milestones : milestones[i].fundsReleased) =>
          balance' = balance]_vars

\* every milestone is released and wei raised beyond the milestone total is
\* still held, with no payout open to anyone
C40_Witness ==
  /\ successful /\ Len(milestones) > 0
  /\ MilestoneTotal < fundingCap
  /\ \A i \in DOMAIN milestones : milestones[i].fundsReleased
  /\ balance = totalFundsRaised - MilestoneTotal
  /\ balance > 0
  /\ \A a \in Users : ~ENABLED withdrawFunds(a) /\ ~ENABLED claimRefund(a)

====
